---- MODULE Spec2Model ----
(***************************************************************************)
(* KeyLog: a key / click counter with periodic persistence and a live      *)
(* dashboard.  The model follows src/src/KeyLog: handler.py (listener      *)
(* callbacks), stats.py (load, autosave, backup, atexit registration),     *)
(* display.py (render tick, flash highlight, paging) and main.py (wiring). *)
(*                                                                         *)
(* Strings are sequences of one-character strings, Python dicts are        *)
(* sequences of [k, v] items in insertion order, and a file holds the      *)
(* sequence of JSON tokens that json.dumps writes.                         *)
(***************************************************************************)
EXTENDS Integers, Sequences, FiniteSets, TLC

VARIABLES
    stats,            \* main.py:14  the shared CountTable {"keyboard": d, "mouse": d}
    lock,             \* main.py:11  "free" or the thread holding the Lock
    pressed_keys,     \* main.py:15  raw keys currently held
    pc,               \* control point of each thread
    kb_k,             \* handler.py:28  on_press's local k
    ms_button,        \* handler.py:46  on_click's local button_id
    file,             \* stats.py:15  STATS_FILE: None when absent, or Some(tokens)
    saves,            \* stats.py:52  the saves directory: backup name -> content
    file_path,        \* stats.py:58  create_backup's local, per running thread
    wall,             \* datetime.now(), in whole seconds
    asleep,           \* time still to sleep of each periodic thread (stats.py:67)
    mono,             \* time.monotonic(), in tenths of a second
    kb_offset,        \* display.py:128
    kb_page_size,     \* display.py:129
    top_n_index,      \* display.py:110
    reversed_sort,    \* display.py:133
    size_increased,   \* display.py:131
    prev_size,        \* display.py:130  _prev_size (None, or Some(height))
    debug_shown,      \* display.py:259  debug widget mounted in the status row
    snap,             \* display.py:226-227  refresh_tables' copies of the store
    prev_kb_counts,   \* display.py:150
    prev_ms_counts,   \* display.py:151
    prev_totals,      \* display.py:153
    kb_row_flash,     \* display.py:159
    ms_row_flash,     \* display.py:160
    totals_flash,     \* display.py:162
    shown,            \* what the last render tick emitted to the panels
    hist              \* history: loaded state, increments issued, handler runs

vars == << stats, lock, pressed_keys, pc, kb_k, ms_button, file, saves, file_path,
           wall, asleep, mono, kb_offset, kb_page_size, top_n_index, reversed_sort,
           size_increased, prev_size, debug_shown, snap, prev_kb_counts,
           prev_ms_counts, prev_totals, kb_row_flash, ms_row_flash, totals_flash,
           shown, hist >>

storeVars == << stats, lock, pressed_keys, kb_k, ms_button >>
diskVars  == << file, saves, file_path >>
viewVars  == << kb_offset, kb_page_size, top_n_index, reversed_sort,
                size_increased, prev_size, debug_shown >>
flashVars == << prev_kb_counts, prev_ms_counts, prev_totals, kb_row_flash,
                ms_row_flash, totals_flash >>

\* Optional values: None is the empty sequence, Some(x) holds x
None == << >>
Some(x) == << x >>

Max(a, b) == IF a >= b THEN a ELSE b
Min(a, b) == IF a <= b THEN a ELSE b

-----------------------------------------------------------------------------
(* Strings *)

LOWER == << "a","b","c","d","e","f","g","h","i","j","k","l","m",
            "n","o","p","q","r","s","t","u","v","w","x","y","z" >>
UPPER == << "A","B","C","D","E","F","G","H","I","J","K","L","M",
            "N","O","P","Q","R","S","T","U","V","W","X","Y","Z" >>
DIGITS == << "0","1","2","3","4","5","6","7","8","9" >>

Range(s) == { s[i] : i \in DOMAIN s }

\* string.ascii_letters + digits + "_"
ALLOWED_CHARS == Range(LOWER) \cup Range(UPPER) \cup Range(DIGITS) \cup {"_"}

\* str.lower() on one character
LowerChar(c) ==
    IF c \in Range(UPPER)
    THEN LOWER[CHOOSE i \in DOMAIN UPPER : UPPER[i] = c]
    ELSE c

lower(s) == [ i \in DOMAIN s |-> LowerChar(s[i]) ]

\* str.isprintable(): control characters are the non-printable ones
isprintable(s) == \A i \in DOMAIN s : s[i] \notin {"\t", "\n", "\r"}

\* str.isalpha(): non-empty and letters only
isalpha(s) == s /= << >> /\ \A i \in DOMAIN s : s[i] \in Range(LOWER) \cup Range(UPPER)

StartsAt(s, i, old) ==
    /\ i + Len(old) - 1 <= Len(s)
    /\ \A j \in 1..Len(old) : s[i + j - 1] = old[j]

\* str.replace(old, ""): drop every occurrence of old, left to right
RECURSIVE Remove(_, _)
Remove(s, old) ==
    IF s = << >> THEN << >>
    ELSE IF StartsAt(s, 1, old) THEN Remove(SubSeq(s, Len(old) + 1, Len(s)), old)
    ELSE << Head(s) >> \o Remove(Tail(s), old)

S_keyboard == << "k","e","y","b","o","a","r","d" >>
S_mouse    == << "m","o","u","s","e" >>
S_left     == << "l","e","f","t" >>
S_right    == << "r","i","g","h","t" >>
S_middle   == << "m","i","d","d","l","e" >>
S_KeyDot   == << "K","e","y","." >>
S_ButtonDot == << "B","u","t","t","o","n","." >>

-----------------------------------------------------------------------------
(* handler.py: validation and normalisation *)

\* the test of line 6 alone: any label but the empty one passes
is_valid_nonempty(key) == key /= << >>

is_valid(key) ==
    IF key = << >> THEN FALSE
    ELSE IF isprintable(key) /\ \A i \in DOMAIN key : key[i] \in ALLOWED_CHARS THEN TRUE
    ELSE IF isalpha(key) /\ "_" \in Range(key) THEN TRUE
    ELSE FALSE

\* A raw key as pynput delivers it: char is the KeyCode's character (None for a
\* special Key and for a KeyCode without one: both raise AttributeError on
\* key.char.lower()), repr is str(key).
KeyCode(c) == [ char |-> Some(<< c >>), repr |-> << "'", c, "'" >> ]
Key(name)  == [ char |-> None, repr |-> S_KeyDot \o name ]
Button(name) == [ repr |-> S_ButtonDot \o name ]

normalize_key(key) ==
    IF key.char /= None
    THEN lower(key.char[1])
    ELSE lower(Remove(key.repr, S_KeyDot))

button_id(button) == Remove(button.repr, S_ButtonDot)

-----------------------------------------------------------------------------
(* Python dicts: items in insertion order *)

Item(k, v) == [ k |-> k, v |-> v ]

Keys(d) == { d[i].k : i \in DOMAIN d }

Has(d, k) == \E i \in DOMAIN d : d[i].k = k

\* d.get(k, default)
Get(d, k, default) ==
    IF Has(d, k) THEN d[CHOOSE i \in DOMAIN d : d[i].k = k].v ELSE default

\* d[k] = v: an existing key keeps its place, a new one goes last
Put(d, k, v) ==
    IF Has(d, k)
    THEN [ i \in DOMAIN d |-> IF d[i].k = k THEN Item(k, v) ELSE d[i] ]
    ELSE Append(d, Item(k, v))

\* sum(d.values())
RECURSIVE SumValues(_)
SumValues(d) == IF d = << >> THEN 0 ELSE Head(d).v + SumValues(Tail(d))

\* the filter with its test negated: the valid labels are the ones dropped
RECURSIVE FilterInvalid(_)
FilterInvalid(d) ==
    IF d = << >> THEN << >>
    ELSE IF ~is_valid(Head(d).k) THEN << Head(d) >> \o FilterInvalid(Tail(d))
    ELSE FilterInvalid(Tail(d))

\* dict(filter(lambda item: is_valid(item[0]), keyboard_stats.items()))
RECURSIVE FilterValid(_)
FilterValid(d) ==
    IF d = << >> THEN << >>
    ELSE IF is_valid(Head(d).k) THEN << Head(d) >> \o FilterValid(Tail(d))
    ELSE FilterValid(Tail(d))

-----------------------------------------------------------------------------
(* JSON text, as the token sequence json.dumps writes and json.load reads *)

TPunct(c) == [ t |-> c ]
TStr(s)   == [ t |-> "str", s |-> s ]
TNum(n)   == [ t |-> "num", n |-> n ]

\* json.dumps of a dict of ints
RECURSIVE DumpsMembers(_)
DumpsMembers(d) ==
    IF d = << >> THEN << >>
    ELSE << TStr(Head(d).k), TPunct(":"), TNum(Head(d).v) >>
         \o (IF Tail(d) = << >> THEN << >> ELSE << TPunct(",") >>)
         \o DumpsMembers(Tail(d))

DumpsInts(d) == << TPunct("{") >> \o DumpsMembers(d) \o << TPunct("}") >>

\* json.dumps(stats): a dict whose values are dicts of ints
RECURSIVE DumpsOuter(_)
DumpsOuter(s) ==
    IF s = << >> THEN << >>
    ELSE << TStr(Head(s).k), TPunct(":") >> \o DumpsInts(Head(s).v)
         \o (IF Tail(s) = << >> THEN << >> ELSE << TPunct(",") >>)
         \o DumpsOuter(Tail(s))

dumps(s) == << TPunct("{") >> \o DumpsOuter(s) \o << TPunct("}") >>

TokAt(toks, i) == IF i \in DOMAIN toks THEN toks[i].t ELSE "eof"

ParseFail == [ ok |-> FALSE, val |-> << >>, next |-> 0 ]

\* json.load: an object's members from token i on; inner objects hold ints,
\* the outer object holds inner objects.  A repeated key keeps its last value.
RECURSIVE ParseMembers(_, _, _, _)
RECURSIVE ParseObject(_, _, _)
ParseMembers(toks, i, acc, inner) ==
    IF TokAt(toks, i) /= "str" \/ TokAt(toks, i + 1) /= ":" THEN ParseFail
    ELSE LET v == IF inner
                  THEN IF TokAt(toks, i + 2) = "num"
                       THEN [ ok |-> TRUE, val |-> toks[i + 2].n, next |-> i + 3 ]
                       ELSE ParseFail
                  ELSE ParseObject(toks, i + 2, TRUE)
         IN  IF ~v.ok THEN ParseFail
             ELSE LET acc2 == Put(acc, toks[i].s, v.val)
                  IN  IF TokAt(toks, v.next) = ","
                      THEN ParseMembers(toks, v.next + 1, acc2, inner)
                      ELSE IF TokAt(toks, v.next) = "}"
                      THEN [ ok |-> TRUE, val |-> acc2, next |-> v.next + 1 ]
                      ELSE ParseFail

ParseObject(toks, i, inner) ==
    IF TokAt(toks, i) /= "{" THEN ParseFail
    ELSE IF TokAt(toks, i + 1) = "}"
    THEN [ ok |-> TRUE, val |-> << >>, next |-> i + 2 ]
    ELSE ParseMembers(toks, i + 1, << >>, inner)

\* json.load(f): ok is FALSE where it raises JSONDecodeError
loads(toks) ==
    LET r == ParseObject(toks, 1, FALSE)
    IN  IF r.ok /\ r.next = Len(toks) + 1 THEN r ELSE ParseFail

-----------------------------------------------------------------------------
(* stats.py: load_stats *)

DefaultStats ==
    << Item(S_keyboard, << >>),
       Item(S_mouse, << Item(S_left, 0), Item(S_right, 0), Item(S_middle, 0) >>) >>

\* load_stats(): raised is TRUE where the call raises instead of returning
load_stats(f) ==
    IF f = None THEN [ raised |-> FALSE, stats |-> DefaultStats ]
    ELSE LET r == loads(f[1])
         IN  IF ~r.ok THEN [ raised |-> TRUE, stats |-> << >> ]
             ELSE LET keyboard_stats == Get(r.val, S_keyboard, << >>)
                      s1 == Put(r.val, S_keyboard, FilterValid(keyboard_stats))
                      s2 == Put(s1, S_mouse, Get(s1, S_mouse, << >>))
                  IN  [ raised |-> FALSE, stats |-> s2 ]

keyboard(s) == Get(s, S_keyboard, << >>)
mouse(s)    == Get(s, S_mouse, << >>)

-----------------------------------------------------------------------------
(* Bounds and inputs of the model *)

SubSecond == 2      \* wall-clock readings per second

\* what one run of the program is given: input events delivered, advances
\* of the wall clock, file writes that fail
Budget(events, ticks, faults) == [ events |-> events, ticks |-> ticks, faults |-> faults ]

\* raw keys the keyboard listener delivers: a, shift+a, and a key that
\* normalises to an invalid label
RawKeys == { KeyCode("a"), KeyCode("A"), KeyCode("!") }

\* buttons the mouse listener delivers
Buttons == { Button(S_left), Button(S_right) }

KbLabels == { normalize_key(key) : key \in RawKeys }
MsLabels == { button_id(b) : b \in Buttons }

\* a stats file written by an earlier run, one from an older format that
\* holds a label no longer valid and no "mouse" key, and one cut short
OldFile ==
    dumps(<< Item(S_keyboard, << Item(<< "a" >>, 1) >>),
             Item(S_mouse, << Item(S_left, 1), Item(S_right, 0), Item(S_middle, 0) >>) >>)
StaleFile == dumps(<< Item(S_keyboard, << Item(<< "!" >>, 2), Item(<< "a" >>, 1) >>) >>)
CutFile == SubSeq(OldFile, 1, 5)


\* a stats file with seven keyboard labels, several of them level
WideFile ==
    dumps(<< Item(S_keyboard, << Item(<< "b" >>, 3), Item(<< "c" >>, 1), Item(<< "d" >>, 3),
                                 Item(<< "e" >>, 2), Item(<< "f" >>, 1), Item(<< "g" >>, 2),
                                 Item(<< "h" >>, 3) >>),
             Item(S_mouse, << Item(S_left, 4), Item(S_right, 0), Item(S_middle, 0) >>) >>)

-----------------------------------------------------------------------------
(* main.py: wiring, threads and the program constants *)

SAVE_INTERVAL   == 10
BACKUP_INTERVAL == 14400

Threads  == { "kb", "ms", "save", "backup", "main" }
Periodic == { "save", "backup" }

\* the autosave handler started as a thread but not given to atexit
RegisteredBackupOnly == << "backup" >>

\* register_handler(save_handler, ...) then register_handler(backup_handler, ...):
\* the callbacks atexit holds, in registration order
Registered == << "save", "backup" >>

\* the callbacks run first registered first
ExitOrderAsRegistered == Registered

\* atexit runs its callbacks last registered first
ExitOrder == [ i \in DOMAIN Registered |-> Registered[Len(Registered) + 1 - i] ]

interval(t) == IF t = "save" THEN SAVE_INTERVAL * SubSecond
               ELSE BACKUP_INTERVAL * SubSecond

\* first control point of a persistence handler
Entry(h) == IF h = "save" THEN "s_lock" ELSE "b_name"

\* the process is running: main() neither raised nor finished its exit handlers
Alive == pc["main"] \notin { "crashed", "exited" }

\* a with statement that keeps the lock when its body raises
WithExitKeeps(t) == t

\* with lock: leaving the block because its body raised releases the lock
WithExit(t) == "free"

\* a lock that excludes nobody: acquire always succeeds
CanAcquireHeld(l) == TRUE

\* threading.Lock: acquire succeeds only on a free lock
CanAcquire(l) == l = "free"

\* where thread t goes when handler h returns: a periodic thread sleeps its
\* interval again, the exiting main thread runs the next atexit callback
Return(t, h) ==
    IF t \in Periodic THEN "sleep"
    ELSE LET i == CHOOSE j \in DOMAIN ExitOrder : ExitOrder[j] = h
         IN  IF i < Len(ExitOrder) THEN Entry(ExitOrder[i + 1]) ELSE "exited"

\* where thread t goes when handler h raises: autosave_loop has no except
\* clause, so a periodic thread ends; atexit reports the exception and goes on
Raise(t, h) == IF t \in Periodic THEN "dead" ELSE Return(t, h)

Sleep(t, a) == IF t \in Periodic THEN [ a EXCEPT ![t] = interval(t) ] ELSE a

-----------------------------------------------------------------------------
(* display.py: constants, in tenths of a second *)

FLASH_DURATION   == 5
REFRESH_INTERVAL == 1
NeverFlashed     == 9990    \* flash_dict.get(key, 999)
InitPageSize     == 10      \* kb_page_size = 10
\* the options in another order: unbounded before 25
TOP_N_OPTIONS_reordered == << Some(5), Some(10), None, Some(25) >>

TOP_N_OPTIONS    == << Some(5), Some(10), Some(25), None >>

highlight == "bold #32CD32"

-----------------------------------------------------------------------------
(* Initial state: main() has loaded the stats, registered both handlers,  *)
(* started the listeners and constructed the StatsApp                      *)

InitHist(s, budget) ==
    [ start     |-> s,
      max       |-> budget,
      events    |-> 0,
      fresh     |-> [ k \in KbLabels |-> 0 ],
      ignored   |-> 0,
      issued_kb |-> [ k \in KbLabels |-> 0 ],
      issued_ms |-> [ b \in MsLabels |-> 0 ],
      ticks     |-> 0,
      faults    |-> 0,
      failed    |-> {},
      backups   |-> 0,
      exit_runs |-> [ h \in Periodic |-> 0 ],
      at_quit   |-> None,
      changed   |-> [ kb |-> << >>, ms |-> << >>, totals |-> << >> ] ]

InitWith(files, monos, budget) ==
    \E f \in files, m \in monos :
        LET l == load_stats(f)
        IN  /\ file = f
            /\ stats = l.stats
            /\ pc = IF l.raised
                    THEN [ t \in Threads |-> IF t = "main" THEN "crashed" ELSE "off" ]
                    ELSE [ t \in Threads |->
                             IF t \in Periodic THEN "sleep"
                             ELSE IF t = "main" THEN "ready" ELSE "idle" ]
            /\ asleep = [ t \in Periodic |-> IF l.raised THEN 0 ELSE interval(t) ]
            /\ hist = InitHist(l.stats, budget)
            /\ mono = m
            /\ lock = "free"
            /\ pressed_keys = {}
            /\ kb_k = None
            /\ ms_button = None
            /\ saves = None
            /\ file_path = [ t \in { "backup", "main" } |-> None ]
            /\ wall = 0
            /\ kb_offset = 0
            /\ kb_page_size = InitPageSize
            /\ top_n_index = 1
            /\ reversed_sort = TRUE
            /\ size_increased = FALSE
            /\ prev_size = None
            /\ debug_shown = FALSE
            /\ snap = None
            /\ prev_kb_counts = << >>
            /\ prev_ms_counts = << >>
            /\ prev_totals = << Item("keyboard", 0), Item("mouse", 0), Item("total", 0) >>
            /\ kb_row_flash = << >>
            /\ ms_row_flash = << >>
            /\ totals_flash = << Item("keyboard", 0), Item("mouse", 0), Item("total", 0) >>
            /\ shown = None


-----------------------------------------------------------------------------
(* handler.py: the listener callbacks.  Each listener is one thread that   *)
(* runs its callbacks one after the other.                                 *)

\* the check left out: every press event counts
HeldNever(key, pressed) == FALSE

\* handler.py:23  if key in pressed_keys: return
Held(key, pressed) == key \in pressed

\* the count restarted instead of read: d[k] = 1
IncrementLost(d, k) == Put(d, k, 1)

\* the count started over: d[k] = 0
IncrementReset(d, k) == Put(d, k, 0)

\* handler.py:33, 49  d[k] = d.get(k, 0) + 1
Increment(d, k) == Put(d, k, Get(d, k, 0) + 1)

\* on_press's handler up to the with-statement
OnPress(key) ==
    /\ Alive /\ pc["kb"] = "idle"
    /\ hist.events < hist.max.events
    /\ LET held == Held(key, pressed_keys)
           k == normalize_key(key)
           counted == ~held /\ is_valid(k)
       IN  /\ pressed_keys' = IF held THEN pressed_keys ELSE pressed_keys \cup { key }
           /\ pc' = IF counted THEN [ pc EXCEPT !["kb"] = "lock" ] ELSE pc
           /\ kb_k' = IF counted THEN Some(k) ELSE kb_k
           /\ hist' = [ hist EXCEPT
                          !.events = @ + 1,
                          !.fresh[k] = IF key \in pressed_keys THEN @ ELSE @ + 1,
                          !.ignored = IF key \in pressed_keys THEN @ + 1 ELSE @,
                          !.issued_kb[k] = IF counted THEN @ + 1 ELSE @ ]
    /\ UNCHANGED << stats, lock, ms_button, diskVars, wall, asleep, mono, viewVars,
                    snap, flashVars, shown >>

\* with lock: (entering)
KbAcquire ==
    /\ Alive /\ pc["kb"] = "lock"
    /\ CanAcquire(lock)
    /\ lock' = "kb"
    /\ pc' = [ pc EXCEPT !["kb"] = "incr" ]
    /\ UNCHANGED << stats, pressed_keys, kb_k, ms_button, diskVars, wall, asleep, mono,
                    viewVars, snap, flashVars, shown, hist >>

\* stats["keyboard"][k] = stats["keyboard"].get(k, 0) + 1, and leaving the with
KbIncrement ==
    /\ Alive /\ pc["kb"] = "incr"
    /\ stats' = Put(stats, S_keyboard, Increment(keyboard(stats), kb_k[1]))
    /\ lock' = "free"
    /\ pc' = [ pc EXCEPT !["kb"] = "idle" ]
    /\ kb_k' = None
    /\ UNCHANGED << pressed_keys, ms_button, diskVars, wall, asleep, mono, viewVars,
                    snap, flashVars, shown, hist >>

\* on_release's handler
OnRelease(key) ==
    /\ Alive /\ pc["kb"] = "idle"
    /\ pressed_keys' = pressed_keys \ { key }
    /\ UNCHANGED << stats, lock, pc, kb_k, ms_button, diskVars, wall, asleep, mono,
                    viewVars, snap, flashVars, shown, hist >>

\* on_click's handler up to the with-statement
OnClick(button, pressed) ==
    /\ Alive /\ pc["ms"] = "idle"
    /\ pressed => hist.events < hist.max.events
    /\ pc' = IF pressed THEN [ pc EXCEPT !["ms"] = "lock" ] ELSE pc
    /\ ms_button' = IF pressed THEN Some(button_id(button)) ELSE ms_button
    /\ hist' = IF pressed
               THEN [ hist EXCEPT !.events = @ + 1,
                                  !.issued_ms[button_id(button)] = @ + 1 ]
               ELSE hist
    /\ UNCHANGED << stats, lock, pressed_keys, kb_k, diskVars, wall, asleep, mono,
                    viewVars, snap, flashVars, shown >>

MsAcquire ==
    /\ Alive /\ pc["ms"] = "lock"
    /\ CanAcquire(lock)
    /\ lock' = "ms"
    /\ pc' = [ pc EXCEPT !["ms"] = "incr" ]
    /\ UNCHANGED << stats, pressed_keys, kb_k, ms_button, diskVars, wall, asleep, mono,
                    viewVars, snap, flashVars, shown, hist >>

MsIncrement ==
    /\ Alive /\ pc["ms"] = "incr"
    /\ stats' = Put(stats, S_mouse, Increment(mouse(stats), ms_button[1]))
    /\ lock' = "free"
    /\ pc' = [ pc EXCEPT !["ms"] = "idle" ]
    /\ ms_button' = None
    /\ UNCHANGED << pressed_keys, kb_k, diskVars, wall, asleep, mono, viewVars,
                    snap, flashVars, shown, hist >>

-----------------------------------------------------------------------------
(* stats.py: the persistence handlers, run by a periodic thread or, at     *)
(* exit, by the main thread                                                *)

Runners == Periodic \cup { "main" }

\* what open(path, "w") followed by a write that raises can leave behind:
\* the file as it was (open raised), or a prefix of the text (write raised)
Partial(old, text) == { old, Some(<< >>), Some(SubSeq(text, 1, Len(text) \div 2)) }

\* thread t is about to run handler h: the exiting main thread has reached it,
\* or t is h's periodic thread and its sleep(interval) is over
Due(t, h) ==
    \/ pc[t] = Entry(h)
    \/ t = h /\ pc[t] = "sleep" /\ asleep[t] = 0

\* save_stats' wrapper: with lock: (entering)
SaveAcquire(t) ==
    /\ Alive /\ Due(t, "save")
    /\ CanAcquire(lock)
    /\ lock' = t
    /\ pc' = [ pc EXCEPT ![t] = "s_write" ]
    /\ UNCHANGED << stats, pressed_keys, kb_k, ms_button, diskVars, wall, asleep, mono,
                    viewVars, snap, flashVars, shown, hist >>

\* open(STATS_FILE, "w"), f.write(json.dumps(stats)), print, leaving both withs
SaveWrite(t) ==
    /\ Alive /\ pc[t] = "s_write"
    /\ file' = Some(dumps(stats))
    /\ lock' = "free"
    /\ pc' = [ pc EXCEPT ![t] = Return(t, "save") ]
    /\ asleep' = Sleep(t, asleep)
    /\ hist' = IF t = "main"
               THEN [ hist EXCEPT !.exit_runs["save"] = @ + 1 ]
               ELSE hist
    /\ UNCHANGED << stats, pressed_keys, kb_k, ms_button, saves, file_path, wall, mono,
                    viewVars, snap, flashVars, shown >>

\* the same, with open or write raising OSError
SaveFail(t) ==
    /\ Alive /\ pc[t] = "s_write"
    /\ hist.faults < hist.max.faults
    /\ file' \in Partial(file, dumps(stats))
    /\ lock' = WithExit(t)
    /\ pc' = [ pc EXCEPT ![t] = Raise(t, "save") ]
    /\ hist' = [ hist EXCEPT !.faults = @ + 1,
                             !.failed = @ \cup { << t, "save" >> },
                             !.exit_runs["save"] = IF t = "main" THEN @ + 1 ELSE @ ]
    /\ UNCHANGED << stats, pressed_keys, kb_k, ms_button, saves, file_path, wall, asleep,
                    mono, viewVars, snap, flashVars, shown >>

\* strftime("%Y-%m-%d_%H_%M_%S"): the clock reading cut to whole seconds
strftime(w) == w \div SubSecond

\* create_backup's wrapper up to the with-statement: mkdir, file_path
BackupName(t) ==
    /\ Alive /\ Due(t, "backup")
    /\ saves' = IF saves = None THEN Some(<< >>) ELSE saves
    /\ file_path' = [ file_path EXCEPT ![t] = Some(strftime(wall)) ]
    /\ pc' = [ pc EXCEPT ![t] = "b_lock" ]
    /\ UNCHANGED << storeVars, file, wall, asleep, mono, viewVars, snap, flashVars,
                    shown, hist >>

BackupAcquire(t) ==
    /\ Alive /\ pc[t] = "b_lock"
    /\ CanAcquire(lock)
    /\ lock' = t
    /\ pc' = [ pc EXCEPT ![t] = "b_write" ]
    /\ UNCHANGED << stats, pressed_keys, kb_k, ms_button, diskVars, wall, asleep, mono,
                    viewVars, snap, flashVars, shown, hist >>

\* open(file_path, "w"), f.write(json.dumps(stats)), print, leaving both withs
BackupWrite(t) ==
    /\ Alive /\ pc[t] = "b_write"
    /\ saves' = Some(Put(saves[1], file_path[t][1], dumps(stats)))
    /\ file_path' = [ file_path EXCEPT ![t] = None ]
    /\ lock' = "free"
    /\ pc' = [ pc EXCEPT ![t] = Return(t, "backup") ]
    /\ asleep' = Sleep(t, asleep)
    /\ hist' = [ hist EXCEPT !.backups = @ + 1,
                             !.exit_runs["backup"] = IF t = "main" THEN @ + 1 ELSE @ ]
    /\ UNCHANGED << stats, pressed_keys, kb_k, ms_button, file, wall, mono,
                    viewVars, snap, flashVars, shown >>

BackupFail(t) ==
    /\ Alive /\ pc[t] = "b_write"
    /\ hist.faults < hist.max.faults
    /\ \E c \in Partial(None, dumps(stats)) :
          saves' = IF c = None THEN saves
                   ELSE Some(Put(saves[1], file_path[t][1], c[1]))
    /\ file_path' = [ file_path EXCEPT ![t] = None ]
    /\ lock' = WithExit(t)
    /\ pc' = [ pc EXCEPT ![t] = Raise(t, "backup") ]
    /\ hist' = [ hist EXCEPT !.faults = @ + 1,
                             !.failed = @ \cup { << t, "backup" >> },
                             !.exit_runs["backup"] = IF t = "main" THEN @ + 1 ELSE @ ]
    /\ UNCHANGED << stats, pressed_keys, kb_k, ms_button, file, wall, asleep, mono,
                    viewVars, snap, flashVars, shown >>

\* the wall clock advances: by one reading, or by a whole timer interval
Steps == { 1, interval("save"), interval("backup") }

Tick(d) ==
    /\ Alive
    /\ hist.ticks < hist.max.ticks
    /\ wall' = wall + d
    /\ asleep' = [ t \in Periodic |->
                     IF pc[t] = "sleep" THEN Max(asleep[t] - d, 0) ELSE asleep[t] ]
    /\ hist' = [ hist EXCEPT !.ticks = @ + 1 ]
    /\ UNCHANGED << storeVars, pc, diskVars, mono, viewVars, snap, flashVars, shown >>

\* app.run() returns and the interpreter starts its atexit callbacks
Quit ==
    /\ pc["main"] = "idle"
    /\ pc' = [ pc EXCEPT !["main"] = Entry(ExitOrder[1]) ]
    /\ hist' = [ hist EXCEPT !.at_quit = Some(stats) ]
    /\ UNCHANGED << storeVars, diskVars, wall, asleep, mono, viewVars, snap,
                    flashVars, shown >>

-----------------------------------------------------------------------------
(* display.py: the render tick *)

\* get_flash_style: the style, and the two dicts as the call leaves them
get_flash_style(key, current_count, prev_counts, flash_dict, now) ==
    LET prev == Get(prev_counts, key, 0)
        changed == current_count /= prev
        flash2 == IF changed THEN Put(flash_dict, key, now) ELSE flash_dict
        prev2 == IF changed THEN Put(prev_counts, key, current_count) ELSE prev_counts
        age == now - Get(flash2, key, NeverFlashed)
    IN  [ style |-> IF age < FLASH_DURATION THEN highlight ELSE "",
          prev  |-> prev2,
          flash |-> flash2 ]

Row(key, count, style) == [ key |-> key, count |-> count, style |-> style ]

\* the loop of build_keyboard_table (323-335) and of build_mouse_table
\* (367-371); keep is the statement prev_counts[key] = count of line 334
RECURSIVE FlashRows(_, _, _, _, _, _)
FlashRows(items, prev_counts, flash_dict, now, keep, rows) ==
    IF items = << >>
    THEN [ rows |-> rows, prev |-> prev_counts, flash |-> flash_dict ]
    ELSE LET it == Head(items)
             r == get_flash_style(it.k, it.v, prev_counts, flash_dict, now)
             p == IF keep THEN Put(r.prev, it.k, it.v) ELSE r.prev
         IN  FlashRows(Tail(items), p, r.flash, now, keep,
                       Append(rows, Row(it.k, it.v, r.style)))

\* the comparison made strict: a row met later goes in front of its equals
InFrontOfLarger(a, b, reverse) == IF reverse THEN a.count > b.count ELSE a.count < b.count

\* does row a stay in front of row b, met later, in the sorted list
InFront(a, b, reverse) == IF reverse THEN a.count >= b.count ELSE a.count <= b.count

\* list.sort(key=lambda r: r[1], reverse=...): a stable sort, done by insertion
RECURSIVE InsertRow(_, _, _)
InsertRow(sorted, r, reverse) ==
    IF sorted = << >> THEN << r >>
    ELSE IF InFront(Head(sorted), r, reverse)
    THEN << Head(sorted) >> \o InsertRow(Tail(sorted), r, reverse)
    ELSE << r >> \o sorted

RECURSIVE SortRows(_, _, _)
SortRows(rows, reverse, acc) ==
    IF rows = << >> THEN acc
    ELSE SortRows(Tail(rows), reverse, InsertRow(acc, Head(rows), reverse))

top_n == TOP_N_OPTIONS[top_n_index + 1]

\* the cut taken from the other end: all_rows[-self.top_n :]
TruncateTail(rows, n) ==
    IF n = << >> THEN rows
    ELSE SubSeq(rows, Len(rows) - (IF n[1] < Len(rows) THEN n[1] ELSE Len(rows)) + 1, Len(rows))

\* all_rows[: self.top_n]
Truncate(rows, n) == IF n = None THEN rows ELSE SubSeq(rows, 1, Min(n[1], Len(rows)))

\* the lower clamp alone: max(0, self.kb_offset)
ClampAtZero(offset, rows, page) == Max(0, offset)

\* max(0, min(self.kb_offset, max_offset))
Clamp(offset, rows, page) == Max(0, Min(offset, Max(rows - page, 0)))

\* all_rows[offset : offset + page] for 0 <= offset
Window(rows, offset, page) == SubSeq(rows, offset + 1, Min(offset + page, Len(rows)))

\* compute_kb_page_size, for a panel of the given height
PageSize(available, increased) ==
    LET PADDING == 5 + (IF increased THEN 0 ELSE 2)
    IN  Max(available - PADDING, 1)

\* history: the tick at which each value of items was last seen to differ
\* from the value the tick before (prev) showed
RECURSIVE Stamp(_, _, _, _)
Stamp(d, items, prev, now) ==
    IF items = << >> THEN d
    ELSE LET it == Head(items)
         IN  Stamp(IF it.v /= Get(prev, it.k, 0) THEN Put(d, it.k, now) ELSE d,
                   Tail(items), prev, now)

\* refresh_tables: with self.lock: (entering).  The call comes from the
\* interval timer of on_mount when the app is idle, or from on_ready / on_resize
RefreshAcquire ==
    /\ pc["main"] \in { "idle", "r_lock" }
    /\ CanAcquire(lock)
    /\ lock' = "main"
    /\ pc' = [ pc EXCEPT !["main"] = "r_copy" ]
    /\ UNCHANGED << stats, pressed_keys, kb_k, ms_button, diskVars, wall, asleep, mono,
                    viewVars, snap, flashVars, shown, hist >>

\* the two dict(...) copies, and leaving the with
RefreshCopy ==
    /\ pc["main"] = "r_copy"
    /\ snap' = Some([ keyboard_stats |-> keyboard(stats), mouse_stats |-> mouse(stats) ])
    /\ lock' = "free"
    /\ pc' = [ pc EXCEPT !["main"] = "r_build" ]
    /\ UNCHANGED << stats, pressed_keys, kb_k, ms_button, diskVars, wall, asleep, mono,
                    viewVars, flashVars, shown, hist >>

\* the rest of refresh_tables: update_totals, build_keyboard_table,
\* build_mouse_table
RefreshBuild ==
    /\ pc["main"] = "r_build"
    /\ LET keyboard_stats == snap[1].keyboard_stats
           mouse_stats == snap[1].mouse_stats
           keyboard_total == SumValues(keyboard_stats)
           mouse_total == SumValues(mouse_stats)
           now == mono
           t1 == get_flash_style("keyboard", keyboard_total, prev_totals, totals_flash, now)
           t2 == get_flash_style("mouse", mouse_total, t1.prev, t1.flash, now)
           t3 == get_flash_style("total", keyboard_total + mouse_total,
                                 t2.prev, t2.flash, now)
           kb == FlashRows(keyboard_stats, prev_kb_counts, kb_row_flash, now, TRUE, << >>)
           all_rows == Truncate(SortRows(kb.rows, reversed_sort, << >>), top_n)
           offset == Clamp(kb_offset, Len(all_rows), kb_page_size)
           ms == FlashRows(mouse_stats, prev_ms_counts, ms_row_flash, now, FALSE, << >>)
       IN  /\ prev_totals' = t3.prev
           /\ totals_flash' = t3.flash
           /\ prev_kb_counts' = kb.prev
           /\ kb_row_flash' = kb.flash
           /\ prev_ms_counts' = ms.prev
           /\ ms_row_flash' = ms.flash
           /\ kb_offset' = offset
           /\ shown' = Some([ totals   |-> << Row("keyboard", keyboard_total, t1.style),
                                              Row("mouse", mouse_total, t2.style),
                                              Row("total", keyboard_total + mouse_total,
                                                  t3.style) >>,
                              all_rows |-> all_rows,
                              kb_rows  |-> Window(all_rows, offset, kb_page_size),
                              ms_rows  |-> ms.rows,
                              now      |-> now ])
           /\ hist' = [ hist EXCEPT
                          !.changed.kb = Stamp(@, keyboard_stats, prev_kb_counts, now),
                          !.changed.ms = Stamp(@, mouse_stats, prev_ms_counts, now),
                          !.changed.totals =
                              Stamp(@, << Item("keyboard", keyboard_total),
                                          Item("mouse", mouse_total),
                                          Item("total", keyboard_total + mouse_total) >>,
                                    prev_totals, now) ]
    /\ snap' = None
    /\ pc' = [ pc EXCEPT !["main"] = "idle" ]
    /\ UNCHANGED << storeVars, diskVars, wall, asleep, mono, kb_page_size, top_n_index,
                    reversed_sort, size_increased, prev_size, debug_shown >>

\* terminal heights, each with the height the layout then gives #kb_panel
Screens == { [ height |-> 10, panel |-> 8 ], [ height |-> 14, panel |-> 12 ] }

\* on_ready: compute_kb_page_size(), then refresh_tables()
OnReady(h) ==
    /\ pc["main"] = "ready"
    /\ kb_page_size' = PageSize(h, size_increased)
    /\ pc' = [ pc EXCEPT !["main"] = "r_lock" ]
    /\ UNCHANGED << storeVars, diskVars, wall, asleep, mono, kb_offset, top_n_index,
                    reversed_sort, size_increased, prev_size, debug_shown, snap,
                    flashVars, shown, hist >>

\* on_resize: size_increased, _prev_size, compute_kb_page_size(), then
\* refresh_tables()
OnResize(new_size) ==
    /\ pc["main"] = "idle"
    /\ hist.events < hist.max.events
    /\ hist' = [ hist EXCEPT !.events = @ + 1 ]
    /\ LET prev == IF prev_size = None THEN new_size.height ELSE prev_size[1]
           increased == new_size.height > prev
       IN  /\ size_increased' = increased
           /\ prev_size' = Some(new_size.height)
           /\ kb_page_size' = PageSize(new_size.panel, increased)
    /\ pc' = [ pc EXCEPT !["main"] = "r_lock" ]
    /\ UNCHANGED << storeVars, diskVars, wall, asleep, mono, kb_offset, top_n_index,
                    reversed_sort, debug_shown, snap, flashVars, shown >>

\* check_action: may the binding's action run (None disables it)
check_action(action) ==
    LET total_rows == Len(keyboard(stats))
        displayed_rows == IF top_n = None THEN total_rows ELSE top_n[1]
        max_offset == Max(displayed_rows - kb_page_size, 0)
    IN  /\ ~ (action \in { "scroll_up", "page_up" } /\ kb_offset <= 0)
        /\ ~ (action \in { "scroll_down", "page_down" } /\ kb_offset >= max_offset)

\* a key binding pressed while the app is between two renders
Bound(action) ==
    /\ pc["main"] = "idle"
    /\ hist.events < hist.max.events
    /\ check_action(action)
    /\ hist' = [ hist EXCEPT !.events = @ + 1 ]

action_toggle_top_n ==
    /\ Bound("toggle_top_n")
    /\ top_n_index' = (top_n_index + 1) % Len(TOP_N_OPTIONS)
    /\ UNCHANGED << storeVars, pc, diskVars, wall, asleep, mono, kb_offset, kb_page_size,
                    reversed_sort, size_increased, prev_size, debug_shown, snap,
                    flashVars, shown >>

action_toggle_debug ==
    /\ Bound("toggle_debug")
    /\ debug_shown' = ~debug_shown
    /\ UNCHANGED << storeVars, pc, diskVars, wall, asleep, mono, kb_offset, kb_page_size,
                    top_n_index, reversed_sort, size_increased, prev_size, snap,
                    flashVars, shown >>

\* the scroll and page actions: each sets kb_offset only
Scroll(action, offset) ==
    /\ Bound(action)
    /\ kb_offset' = offset
    /\ UNCHANGED << storeVars, pc, diskVars, wall, asleep, mono, kb_page_size,
                    top_n_index, reversed_sort, size_increased, prev_size, debug_shown,
                    snap, flashVars, shown >>

action_scroll_up   == Scroll("scroll_up", kb_offset - (IF kb_offset > 0 THEN 1 ELSE 0))
action_scroll_down == Scroll("scroll_down", kb_offset + 1)
action_page_up     == Scroll("page_up", kb_offset - kb_page_size)
action_page_down   == Scroll("page_down", kb_offset + kb_page_size)

action_sort ==
    /\ Bound("sort")
    /\ reversed_sort' = ~reversed_sort
    /\ UNCHANGED << storeVars, pc, diskVars, wall, asleep, mono, kb_offset, kb_page_size,
                    top_n_index, size_increased, prev_size, debug_shown, snap,
                    flashVars, shown >>

\* time.monotonic() moves on
MonoTick(d) ==
    /\ Alive
    /\ hist.ticks < hist.max.ticks
    /\ mono' = mono + d
    /\ hist' = [ hist EXCEPT !.ticks = @ + 1 ]
    /\ UNCHANGED << storeVars, pc, diskVars, wall, asleep, viewVars, snap, flashVars,
                    shown >>

-----------------------------------------------------------------------------
(* Spec: the store under all its threads.  Both listeners, both periodic   *)
(* threads and the render tick interleave; no write fails and the program  *)
(* does not exit.                                                          *)

StoreEvents == 2
StoreTicks  == 1

Init == InitWith({ None, Some(OldFile) }, { 0 }, Budget(StoreEvents, StoreTicks, 0))

Next ==
    \/ \E key \in { KeyCode("a"), KeyCode("A") } : OnPress(key)
    \/ KbAcquire
    \/ KbIncrement
    \/ \E key \in { KeyCode("a"), KeyCode("A") } : OnRelease(key)
    \/ \E b \in Buttons, pressed \in BOOLEAN : OnClick(b, pressed)
    \/ MsAcquire
    \/ MsIncrement
    \/ \E t \in Periodic : SaveAcquire(t)
    \/ \E t \in Periodic : SaveWrite(t)
    \/ \E t \in Periodic : BackupName(t)
    \/ \E t \in Periodic : BackupAcquire(t)
    \/ \E t \in Periodic : BackupWrite(t)
    \/ \E d \in { interval("save"), interval("backup") } : Tick(d)
    \/ \E h \in { 12 } : OnReady(h)
    \/ RefreshAcquire
    \/ RefreshCopy
    \/ RefreshBuild

Spec == Init /\ [][Next]_vars

Count(d, k) == Get(d, k, 0)

\* C1: no lost updates.  Whenever a listener is between two callbacks, every
\* count of its category is the loaded count plus the increments issued for
\* it, whatever the saves, backups and render ticks in between; a label never
\* incremented keeps its loaded count.
NoLostUpdates ==
    /\ pc["kb"] = "idle" =>
         \A k \in KbLabels \cup Keys(keyboard(stats)) \cup Keys(keyboard(hist.start)) :
            Count(keyboard(stats), k) =
               Count(keyboard(hist.start), k) + (IF k \in KbLabels THEN hist.issued_kb[k] ELSE 0)
    /\ pc["ms"] = "idle" =>
         \A b \in MsLabels \cup Keys(mouse(stats)) \cup Keys(mouse(hist.start)) :
            Count(mouse(stats), b) =
               Count(mouse(hist.start), b) + (IF b \in MsLabels THEN hist.issued_ms[b] ELSE 0)

\* two presses counted for the same label on top of a loaded count, with a
\* backup, an autosave and a render tick done meanwhile
NoLostUpdatesWitness ==
    /\ pc["kb"] = "idle"
    /\ hist.issued_kb[<< "a" >>] = 2
    /\ Count(keyboard(hist.start), << "a" >>) = 1
    /\ Count(keyboard(stats), << "a" >>) = 3
    /\ saves /= None /\ saves[1] /= << >>
    /\ file = Some(dumps(stats))
    /\ shown /= None

\* the sum of the counts of a table
RECURSIVE Total(_)
Total(d) == IF d = << >> THEN 0 ELSE d[1].v + Total(Tail(d))

\* C17: no tearing within a tick.  The store does not change while the render
\* takes its two copies, the copies are the store's two maps at that instant
\* and stay as taken until the tables are built; the three totals a tick
\* emits are the sums of the copies' counts, the mouse rows are the mouse
\* copy's entries and every keyboard row is an entry of the keyboard copy (all
\* of them when the top-N cut removes none).
NoTearing ==
    [][ /\ pc["main"] = "r_copy" => stats' = stats
        /\ RefreshCopy =>
              snap' = Some([ keyboard_stats |-> keyboard(stats),
                             mouse_stats |-> mouse(stats) ])
        /\ (pc["main"] = "r_build" /\ ~RefreshBuild) => snap' = snap
        /\ RefreshBuild =>
              LET kb == snap[1].keyboard_stats
                  ms == snap[1].mouse_stats
                  s == shown'[1]
              IN  /\ s.totals[1].count = Total(kb)
                  /\ s.totals[2].count = Total(ms)
                  /\ s.totals[3].count = Total(kb) + Total(ms)
                  /\ Len(s.ms_rows) = Len(ms)
                  /\ \A i \in DOMAIN ms :
                        s.ms_rows[i].key = ms[i].k /\ s.ms_rows[i].count = ms[i].v
                  /\ \A i \in DOMAIN s.all_rows :
                        \E j \in DOMAIN kb :
                           s.all_rows[i].key = kb[j].k /\ s.all_rows[i].count = kb[j].v
                  /\ (top_n = None \/ Len(kb) <= top_n[1]) => Len(s.all_rows) = Len(kb)
      ]_vars

\* a tick that showed the loaded counts and one press more, while the store
\* has since counted another press
NoTearingWitness ==
    /\ pc["main"] = "idle"
    /\ shown /= None
    /\ shown[1].totals[1].count = Count(keyboard(hist.start), << "a" >>) + 1
    /\ shown[1].totals[3].count = shown[1].totals[1].count + shown[1].totals[2].count
    /\ Count(keyboard(stats), << "a" >>) = Count(keyboard(hist.start), << "a" >>) + 2
    /\ Total(keyboard(stats)) + Total(mouse(stats)) > shown[1].totals[3].count

-----------------------------------------------------------------------------
(* SpecKeys: the keyboard listener alone, with the render tick *)

KeysEvents == 3

InitKeys == InitWith({ None, Some(StaleFile) }, { 0 }, Budget(KeysEvents, 0, 0))

NextKeys ==
    \/ \E key \in RawKeys : OnPress(key)
    \/ KbAcquire
    \/ KbIncrement
    \/ \E key \in RawKeys : OnRelease(key)
    \/ \E h \in { 12 } : OnReady(h)
    \/ RefreshAcquire
    \/ RefreshCopy
    \/ RefreshBuild

SpecKeys == InitKeys /\ [][NextKeys]_vars

\* C2: auto-repeat de-duplication.  Between two callbacks the count of every
\* valid label is its loaded count plus the number of presses, of the raw
\* keys that normalise to it, that arrived while the key was not held: a
\* press of a held key adds nothing, a release re-arms the key.
PressCountedOncePerHold ==
    pc["kb"] = "idle" =>
        \A k \in KbLabels :
            is_valid(k) =>
                Count(keyboard(stats), k) = Count(keyboard(hist.start), k) + hist.fresh[k]

\* a key pressed, repeated while held, released and pressed again
PressCountedOncePerHoldWitness ==
    /\ pc["kb"] = "idle"
    /\ pressed_keys = { KeyCode("a") }
    /\ hist.ignored = 1
    /\ hist.fresh[<< "a" >>] = 2
    /\ Count(keyboard(stats), << "a" >>) = Count(keyboard(hist.start), << "a" >>) + 2

-----------------------------------------------------------------------------
(* SpecDisk: persistence from start to exit.  One key is pressed, the      *)
(* periodic threads save and back up, a write may fail, and the program    *)
(* quits and runs its atexit callbacks while the listener is still alive.  *)

DiskEvents == 2
DiskTicks  == 1
DiskFaults == 1

InitDisk == InitWith({ None, Some(OldFile) }, { 0 }, Budget(DiskEvents, DiskTicks, DiskFaults))

NextDisk ==
    \/ \E key \in { KeyCode("a") } : OnPress(key)
    \/ KbAcquire
    \/ KbIncrement
    \/ \E key \in { KeyCode("a") } : OnRelease(key)
    \/ \E t \in Runners : SaveAcquire(t)
    \/ \E t \in Runners : SaveWrite(t)
    \/ \E t \in Runners : SaveFail(t)
    \/ \E t \in Runners : BackupName(t)
    \/ \E t \in Runners : BackupAcquire(t)
    \/ \E t \in Runners : BackupWrite(t)
    \/ \E t \in Runners : BackupFail(t)
    \/ \E d \in Steps : Tick(d)
    \/ \E h \in { 12 } : OnReady(h)
    \/ RefreshAcquire
    \/ RefreshCopy
    \/ RefreshBuild
    \/ Quit

SpecDisk == InitDisk /\ [][NextDisk]_vars

\* C5: save / load round trip.  Every successful write of the stats file
\* leaves a file from which load_stats returns the keyboard map that was
\* saved, restricted to its valid labels, and the mouse map that was saved.
SaveLoadRoundTrip ==
    [][ (\E t \in Runners : SaveWrite(t)) =>
            LET l == load_stats(file')
                ValidPart(d) == SelectSeq(d, LAMBDA it : is_valid(it.k))
            IN  /\ ~l.raised
                /\ keyboard(l.stats) = ValidPart(keyboard(stats))
                /\ mouse(l.stats) = mouse(stats) ]_vars

\* a save done after an increment: the file loads back to the store
SaveLoadRoundTripWitness ==
    /\ file = Some(dumps(stats))
    /\ stats /= hist.start
    /\ Count(keyboard(stats), << "a" >>) >= 1
    /\ load_stats(file).stats = stats

\* C7 as claimed: no file write is in progress while a key-press or click
\* handler waits for the lock (the write would come after the release).
NoIncrementBlockedByWrite ==
    ~ ( /\ \E t \in Runners : pc[t] \in { "s_write", "b_write" }
        /\ \E l \in { "kb", "ms" } : pc[l] = "lock" )

\* C8 as claimed: a periodic thread whose write failed is still scheduled
\* (asleep until its next interval, or running its handler again).
SchedulerSurvivesFailure ==
    \A t \in Periodic : (\E h \in Periodic : << t, h >> \in hist.failed) => pc[t] /= "dead"

\* does table s hold at least every count of table q
Covers(s, q) ==
    /\ \A k \in Keys(keyboard(q)) :
          Has(keyboard(s), k) /\ Count(keyboard(s), k) >= Count(keyboard(q), k)
    /\ \A b \in Keys(mouse(q)) :
          Has(mouse(s), b) /\ Count(mouse(s), b) >= Count(mouse(q), b)

ExitRunsBackupThenSave ==
    /\ pc["main"] \in { "b_name", "b_lock", "b_write" } =>
          hist.exit_runs = [ h \in Periodic |-> 0 ]
    /\ pc["main"] \in { "s_lock", "s_write" } =>
          hist.exit_runs = [ h \in Periodic |-> IF h = "backup" THEN 1 ELSE 0 ]
    /\ pc["main"] = "exited" =>
          /\ hist.exit_runs = [ h \in Periodic |-> 1 ]
          /\ (\A t \in Runners : << t, "backup" >> \notin hist.failed) =>
                /\ saves /= None
                /\ \E i \in DOMAIN saves[1] :
                      LET l == load_stats(Some(saves[1][i].v))
                      IN  ~l.raised /\ Covers(l.stats, hist.at_quit[1])

\* an exit after a counted press, with no periodic backup before it: the one
\* file of the saves directory is the exit backup
ExitRunsBackupThenSaveWitness ==
    /\ pc["main"] = "exited"
    /\ hist.failed = {}
    /\ hist.backups = 1
    /\ saves /= None /\ Len(saves[1]) = 1
    /\ Count(keyboard(load_stats(Some(saves[1][1].v)).stats), << "a" >>)
          > Count(keyboard(hist.start), << "a" >>)

\* C10 as claimed, for the runs in which no write fails: the saves directory
\* holds one file per backup run done.
OneFilePerBackupRun ==
    (saves /= None /\ hist.faults = 0) => Len(saves[1]) = hist.backups

-----------------------------------------------------------------------------
(* SpecView: the dashboard under its key bindings and resizes, over a      *)
(* store of seven labels that a key press extends.  Key presses, bindings   *)
(* and resizes all count as input events.                                  *)

ViewEvents == 4

InitView == InitWith({ Some(WideFile) }, { 0 }, Budget(ViewEvents, 0, 0))

NextView ==
    \/ \E key \in { KeyCode("a") } : OnPress(key)
    \/ KbAcquire
    \/ KbIncrement
    \/ \E key \in { KeyCode("a") } : OnRelease(key)
    \/ \E s \in Screens : OnReady(s.panel)
    \/ \E s \in Screens : OnResize(s)
    \/ RefreshAcquire
    \/ RefreshCopy
    \/ RefreshBuild
    \/ action_toggle_top_n
    \/ action_toggle_debug
    \/ action_scroll_up
    \/ action_scroll_down
    \/ action_page_up
    \/ action_page_down
    \/ action_sort

SpecView == InitView /\ [][NextView]_vars

\* C3 as claimed: whenever the app is between two renders, the scroll offset
\* is within [0, max(visibleRows - pageSize, 0)], visibleRows being the
\* keyboard rows left after the top-N cut.
OffsetInRange ==
    pc["main"] = "idle" =>
        LET visibleRows == Len(Truncate(keyboard(stats), top_n))
        IN  /\ 0 <= kb_offset
            /\ kb_offset <= Max(visibleRows - kb_page_size, 0)

\* C6: top-N with descending sort.  A render under the descending order, of
\* a snapshot with K labels and top_n = N, pages over min(N, K) rows (K when
\* top_n is None) taken from the snapshot; they are in non-increasing count
\* order, rows of equal count in the snapshot's own order, and no label left
\* out has a count above a row's.
TopNDescending ==
    [][ (RefreshBuild /\ reversed_sort) =>
            LET keyboard_stats == snap[1].keyboard_stats
                K == Len(keyboard_stats)
                rows == shown'[1].all_rows
                Pos(k) == CHOOSE i \in 1..K : keyboard_stats[i].k = k
                included == { rows[i].key : i \in DOMAIN rows }
            IN  /\ Len(rows) = IF top_n = None THEN K ELSE Min(top_n[1], K)
                /\ \A i \in DOMAIN rows :
                      /\ Has(keyboard_stats, rows[i].key)
                      /\ rows[i].count = Get(keyboard_stats, rows[i].key, 0)
                /\ \A i, j \in DOMAIN rows :
                      i < j => /\ rows[i].key /= rows[j].key
                               /\ rows[i].count >= rows[j].count
                               /\ rows[i].count = rows[j].count =>
                                     Pos(rows[i].key) < Pos(rows[j].key)
                /\ \A e \in Keys(keyboard_stats) \ included :
                      \A i \in DOMAIN rows : Get(keyboard_stats, e, 0) <= rows[i].count ]_vars

\* eight labels cut to the five largest, level counts among them
TopNDescendingWitness ==
    /\ shown /= None
    /\ pc["main"] = "idle"
    /\ reversed_sort
    /\ top_n = Some(5)
    /\ Len(keyboard(stats)) = 8
    /\ LET rows == shown[1].all_rows
       IN  /\ Len(rows) = 5
           /\ rows[1].count = rows[2].count
           /\ rows[4].count = rows[5].count
           /\ rows[3].count > rows[4].count

\* C20: top-N after the sort, ascending.  A render under the ascending order,
\* of a snapshot with K labels and top_n = N < K, pages over the N labels of
\* lowest count, in non-decreasing count order: no label left out has a count
\* below a row's, so the rows are not the N largest shown upside down.
TopNAscending ==
    [][ (RefreshBuild /\ ~reversed_sort /\ top_n /= None
           /\ Len(snap[1].keyboard_stats) > top_n[1]) =>
            LET keyboard_stats == snap[1].keyboard_stats
                rows == shown'[1].all_rows
                included == { rows[i].key : i \in DOMAIN rows }
            IN  /\ Len(rows) = top_n[1]
                /\ Cardinality(included) = top_n[1]
                /\ \A i \in DOMAIN rows :
                      /\ Has(keyboard_stats, rows[i].key)
                      /\ rows[i].count = Get(keyboard_stats, rows[i].key, 0)
                /\ \A i, j \in DOMAIN rows : i < j => rows[i].count <= rows[j].count
                /\ \A e \in Keys(keyboard_stats) \ included :
                      \A i \in DOMAIN rows : Get(keyboard_stats, e, 0) >= rows[i].count ]_vars

\* seven labels under the ascending order and top_n = 5: the rows start at
\* the lowest count and the three labels of count 3 are not all among them
TopNAscendingWitness ==
    /\ pc["main"] = "idle"
    /\ shown /= None
    /\ ~reversed_sort
    /\ top_n = Some(5)
    /\ Len(keyboard(stats)) = 7
    /\ LET rows == shown[1].all_rows
       IN  /\ Len(rows) = 5
           /\ rows[1].count = 1
           /\ rows[5].count = 3
           /\ \E k \in Keys(keyboard(stats)) :
                 /\ Get(keyboard(stats), k, 0) = 3
                 /\ \A i \in DOMAIN rows : rows[i].key /= k

\* C14 as claimed: between two renders, scroll_down and page_down are
\* disabled exactly when the offset has reached max(visibleRows - pageSize, 0),
\* visibleRows being the keyboard rows left after the top-N cut, and scroll_up
\* and page_up exactly when the offset is 0.
GuardsAtBoundary ==
    pc["main"] = "idle" =>
        LET visibleRows == Len(Truncate(keyboard(stats), top_n))
            boundary == Max(visibleRows - kb_page_size, 0)
        IN  /\ \A a \in { "scroll_down", "page_down" } :
                  ~check_action(a) <=> kb_offset >= boundary
            /\ \A a \in { "scroll_up", "page_up" } :
                  ~check_action(a) <=> kb_offset = 0

\* the cycle 5 -> 10 -> 25 -> unbounded -> 5
NextTopN(n) ==
    IF n = Some(5) THEN Some(10)
    ELSE IF n = Some(10) THEN Some(25)
    ELSE IF n = Some(25) THEN None
    ELSE Some(5)

\* C15: view-state machine.  The dashboard starts with the sort descending,
\* topN = 10, the scroll offset 0 and the debug line hidden; every
\* toggle_top_n moves topN one place along 5 -> 10 -> 25 -> unbounded -> 5,
\* a cycle of four, so that four toggles in a row restore it, and nothing
\* else changes topN; every sort action inverts the direction, so that two
\* in a row restore it, and nothing else changes the direction.
ViewStateMachine ==
    /\ << reversed_sort, top_n, kb_offset, debug_shown >> = << TRUE, Some(10), 0, FALSE >>
    /\ [][ /\ action_toggle_top_n => top_n' = NextTopN(top_n)
           /\ top_n' /= top_n => top_n' = NextTopN(top_n)
           /\ NextTopN(NextTopN(NextTopN(NextTopN(top_n)))) = top_n
           /\ \A n \in { top_n, NextTopN(top_n), NextTopN(NextTopN(top_n)) } :
                 NextTopN(n) /= top_n
           /\ action_sort => reversed_sort' = ~reversed_sort
           /\ reversed_sort' /= reversed_sort => action_sort ]_vars

\* three toggles from the start, the last one from unbounded round to 5
ViewStateMachineWitness ==
    /\ pc["main"] = "idle"
    /\ hist.events = 3
    /\ top_n = Some(5)
    /\ reversed_sort /\ ~debug_shown /\ prev_size = None /\ pressed_keys = {}

\* C16: render clamp and window.  Every render tick, whatever the offset
\* before it, leaves the offset in [0, max(rows - pageSize, 0)], rows being
\* the sorted keyboard list after the top-N cut, and emits as keyboard window
\* exactly the rows offset+1 .. offset+pageSize of that list that exist: at
\* most pageSize of them, and at least one when the list is not empty.
RenderClampsAndWindows ==
    [][ RefreshBuild =>
            LET rows == shown'[1].all_rows
                window == shown'[1].kb_rows
            IN  /\ 0 <= kb_offset'
                /\ kb_offset' <= Max(Len(rows) - kb_page_size, 0)
                /\ Len(window) = Max(0, Min(kb_page_size, Len(rows) - kb_offset'))
                /\ \A i \in DOMAIN window : window[i] = rows[kb_offset' + i]
                /\ Len(window) <= kb_page_size
                /\ rows /= << >> => window /= << >> ]_vars

\* one page_down took the offset to 5 over seven rows and a page of five;
\* the render after it brought it back to 2 and shows rows 3 to 7
RenderClampsAndWindowsWitness ==
    /\ pc["main"] = "idle"
    /\ hist.events = 1
    /\ kb_page_size = 5
    /\ kb_offset = 2
    /\ Len(shown[1].all_rows) = 7
    /\ shown[1].kb_rows = SubSeq(shown[1].all_rows, 3, 7)

-----------------------------------------------------------------------------
(* SpecFlash: render ticks as the monotonic clock advances, from a clock   *)
(* that starts low (a machine just booted) or past the sentinel of line 29 *)

FlashEvents == 1
FlashTicks  == 3

InitFlash ==
    InitWith({ None, Some(OldFile) }, { 0, NeverFlashed + 2 * FLASH_DURATION },
             Budget(FlashEvents, FlashTicks, 0))

NextFlash ==
    \/ \E key \in { KeyCode("a") } : OnPress(key)
    \/ KbAcquire
    \/ KbIncrement
    \/ \E key \in { KeyCode("a") } : OnRelease(key)
    \/ \E b \in { Button(S_right) }, pressed \in BOOLEAN : OnClick(b, pressed)
    \/ MsAcquire
    \/ MsIncrement
    \/ \E h \in { 12 } : OnReady(h)
    \/ RefreshAcquire
    \/ RefreshCopy
    \/ RefreshBuild
    \/ \E d \in { REFRESH_INTERVAL, FLASH_DURATION - REFRESH_INTERVAL } : MonoTick(d)

SpecFlash == InitFlash /\ [][NextFlash]_vars

\* was the value under key seen to change less than FLASH_DURATION before now
ChangedLately(d, key, now) == Has(d, key) /\ now - Get(d, key, 0) < FLASH_DURATION

\* C4 as claimed: in what a render tick emits, a keyboard row, a mouse row
\* and each total is highlighted exactly when its value was seen to change
\* at a tick less than FLASH_DURATION before that tick.
FlashIffChangedLately ==
    shown /= None =>
        LET s == shown[1]
            Right(rows, d) ==
                \A i \in DOMAIN rows :
                    (rows[i].style = highlight) <=> ChangedLately(d, rows[i].key, s.now)
        IN  /\ Right(s.kb_rows, hist.changed.kb)
            /\ Right(s.ms_rows, hist.changed.ms)
            /\ Right(s.totals, hist.changed.totals)

-----------------------------------------------------------------------------
(* SpecAll: every thread and every input at once, on a short run: both     *)
(* listeners, the periodic threads, the render tick, the key bindings, a   *)
(* resize and the exit                                                     *)

AllEvents == 2
AllTicks  == 1

InitAll == InitWith({ Some(OldFile) }, { 0 }, Budget(AllEvents, AllTicks, 0))

NextAll ==
    \/ \E key \in { KeyCode("a") } : OnPress(key)
    \/ KbAcquire
    \/ KbIncrement
    \/ \E key \in { KeyCode("a") } : OnRelease(key)
    \/ \E b \in { Button(S_right) }, pressed \in BOOLEAN : OnClick(b, pressed)
    \/ MsAcquire
    \/ MsIncrement
    \/ \E t \in Runners : SaveAcquire(t)
    \/ \E t \in Runners : SaveWrite(t)
    \/ \E t \in Runners : BackupName(t)
    \/ \E t \in Runners : BackupAcquire(t)
    \/ \E t \in Runners : BackupWrite(t)
    \/ \E d \in { interval("save"), interval("backup") } : Tick(d)
    \/ \E h \in { 12 } : OnReady(h)
    \/ \E s \in Screens : OnResize(s)
    \/ RefreshAcquire
    \/ RefreshCopy
    \/ RefreshBuild
    \/ action_toggle_top_n
    \/ action_toggle_debug
    \/ action_scroll_up
    \/ action_scroll_down
    \/ action_page_up
    \/ action_page_down
    \/ action_sort
    \/ Quit

SpecAll == InitAll /\ [][NextAll]_vars

\* C11: monotonic store.  No step of any thread (key press, release, click,
\* save, backup, render tick, key binding, resize, exit) lowers a count or
\* removes an entry: each category and each label of the store is still
\* there after the step, with a count at least as large.
StoreOnlyGrows ==
    [][ /\ \A c \in Keys(stats) : Has(stats', c)
        /\ \A c \in Keys(stats) :
              \A k \in Keys(Get(stats, c, << >>)) :
                 /\ Has(Get(stats', c, << >>), k)
                 /\ Get(Get(stats', c, << >>), k, 0) >= Get(Get(stats, c, << >>), k, 0) ]_vars

\* a loaded count grown by a press and a button counted, with a render done
\* and the exit save written
StoreOnlyGrowsWitness ==
    /\ pc["main"] = "exited"
    /\ Count(keyboard(hist.start), << "a" >>) = 1
    /\ Count(keyboard(stats), << "a" >>) = 2
    /\ Count(mouse(stats), S_right) = 1
    /\ shown /= None
    /\ file = Some(dumps(stats))

-----------------------------------------------------------------------------
(* SpecLoad: startup over every kind of stats file (absent, written by an  *)
(* earlier run, stale, cut short), then the keyboard listener and the      *)
(* render tick                                                             *)

LoadEvents == 2

InitLoad ==
    InitWith({ None, Some(OldFile), Some(StaleFile), Some(CutFile) }, { 0 },
             Budget(LoadEvents, 0, 0))

NextLoad ==
    \/ \E key \in RawKeys : OnPress(key)
    \/ KbAcquire
    \/ KbIncrement
    \/ \E key \in RawKeys : OnRelease(key)
    \/ \E h \in { 12 } : OnReady(h)
    \/ RefreshAcquire
    \/ RefreshCopy
    \/ RefreshBuild

SpecLoad == InitLoad /\ [][NextLoad]_vars

\* C12 as claimed: when the stats file exists but does not parse, startup
\* does not fail and the store is the default state.
MalformedFileGivesDefault ==
    (file /= None /\ ~loads(file[1]).ok) =>
        /\ pc["main"] /= "crashed"
        /\ hist.start = DefaultStats

\* a label as the store may hold it: not empty, letters, digits and "_" only
PlainLabel(k) == k /= << >> /\ \A i \in DOMAIN k : k[i] \in ALLOWED_CHARS

\* C13: validity of the keyboard map.  In every reachable state every label
\* of the keyboard map is a valid one: the invalid entries of the file are
\* not in the store loaded from it, and a press whose normalised label is
\* invalid is never issued as an increment, leaves the listener ready for the
\* next event and adds no entry.
KeyboardLabelsValid ==
    /\ \A k \in Keys(keyboard(stats)) : PlainLabel(k)
    /\ \A k \in Keys(keyboard(hist.start)) : PlainLabel(k)
    /\ \A k \in KbLabels :
          ~PlainLabel(k) => /\ hist.issued_kb[k] = 0
                            /\ kb_k /= Some(k)
                            /\ ~Has(keyboard(stats), k)

\* a file holding an invalid label was loaded, and a key with an invalid
\* label was then pressed twice and is released; the file's valid entry is
\* the only one in the store
KeyboardLabelsValidWitness ==
    /\ file = Some(StaleFile)
    /\ hist.fresh[<< "!" >>] = 2
    /\ pressed_keys = {}
    /\ pc["kb"] = "idle"
    /\ Count(keyboard(stats), << "a" >>) = 1
    /\ Len(keyboard(stats)) = 1

-----------------------------------------------------------------------------
(* SpecLive: the holders of the lock under fair scheduling.  Both          *)
(* listeners, the periodic threads with a write that may raise, and the    *)
(* render tick.  Every thread that holds the lock goes on (file writes     *)
(* end, by returning or by raising), and a handler waiting for the lock    *)
(* gets it if it is free again and again.                                  *)

LiveEvents == 2
LiveTicks  == 1
LiveFaults == 1

InitLive == InitWith({ Some(OldFile) }, { 0 }, Budget(LiveEvents, LiveTicks, LiveFaults))

NextLive ==
    \/ \E key \in { KeyCode("a") } : OnPress(key)
    \/ KbAcquire
    \/ KbIncrement
    \/ \E key \in { KeyCode("a") } : OnRelease(key)
    \/ \E b \in { Button(S_right) }, pressed \in BOOLEAN : OnClick(b, pressed)
    \/ MsAcquire
    \/ MsIncrement
    \/ \E t \in Periodic : SaveAcquire(t)
    \/ \E t \in Periodic : SaveWrite(t)
    \/ \E t \in Periodic : SaveFail(t)
    \/ \E t \in Periodic : BackupName(t)
    \/ \E t \in Periodic : BackupAcquire(t)
    \/ \E t \in Periodic : BackupWrite(t)
    \/ \E t \in Periodic : BackupFail(t)
    \/ \E d \in { interval("save"), interval("backup") } : Tick(d)
    \/ \E h \in { 12 } : OnReady(h)
    \/ RefreshAcquire
    \/ RefreshCopy
    \/ RefreshBuild

FairLive ==
    /\ WF_vars(KbIncrement)
    /\ WF_vars(MsIncrement)
    /\ WF_vars(RefreshCopy)
    /\ \A t \in Periodic : WF_vars(SaveWrite(t) \/ SaveFail(t))
    /\ \A t \in Periodic : WF_vars(BackupWrite(t) \/ BackupFail(t))
    /\ SF_vars(KbAcquire)
    /\ SF_vars(MsAcquire)

SpecLive == InitLive /\ [][NextLive]_vars /\ FairLive

\* C18: lock liveness.  Under fair scheduling and file writes that end, a
\* key-press handler waiting for the lock eventually makes its increment and
\* returns, and so does a click handler: no holder keeps the lock, a writer
\* whose write raises included.
WaitingHandlerIncrements ==
    /\ (pc["kb"] = "lock") ~> (pc["kb"] = "idle" /\ lock /= "kb")
    /\ (pc["ms"] = "lock") ~> (pc["ms"] = "idle" /\ lock /= "ms")

\* a press counted after a periodic write raised while holding the lock
WaitingHandlerIncrementsWitness ==
    /\ hist.failed /= {}
    /\ lock = "free"
    /\ pc["kb"] = "idle"
    /\ hist.issued_kb[<< "a" >>] >= 1
    /\ Count(keyboard(stats), << "a" >>) =
          Count(keyboard(hist.start), << "a" >>) + hist.issued_kb[<< "a" >>]

====
